---- MODULE Spec2Model ----
\* A model of the 'defined' crate: the ternary value Optional<T>
\* (src/src/optional.rs), the binary value Defined<T> (src/src/defined.rs)
\* and the serde adapter of Optional<T> (src/src/integrations/serde.rs).
EXTENDS Integers, FiniteSets, Sequences, TLC

\* ---------------------------------------------------------------- bounds

\* The payload type T is modelled as the integers 0..MaxVal.
MaxVal == 2

T == 0 .. MaxVal

\* Caller-supplied panic messages (expect) and error values (ok_or).
Msgs == {"msg_a", "msg_b"}
Errs == {"err_a", "err_b"}

\* ------------------------------------------------- the host language's types

None == [some |-> FALSE]
Some(v) == [some |-> TRUE, val |-> v]

Ok(v) == [ok |-> TRUE, val |-> v]
Err(e) == [ok |-> FALSE, err |-> e]

\* The two ways a call ends: it returns a value, or it panics with a message.
Returned(v) == [panic |-> FALSE, val |-> v]
Panicked(m) == [panic |-> TRUE, msg |-> m]

OptionT == {None} \cup {Some(v) : v \in T}

\* T::default()
T_default == 0

\* The closures handed to map_or / map_or_else (FnOnce(T) -> U, with U = T).
Fns == {[v \in T |-> v], [v \in T |-> (v + 1) % (MaxVal + 1)], [v \in T |-> 0]}

\* ------------------------------------------------------------ Optional<T>

Optional_Undef == [tag |-> "Undef"]
Optional_Null == [tag |-> "Null"]
Optional_Def(v) == [tag |-> "Def", val |-> v]

OptionalT == {Optional_Undef, Optional_Null} \cup {Optional_Def(v) : v \in T}

Optional_default == Optional_Undef

Optional_from_T(val) == Optional_Def(val)

\* Faulty variant of From<Option<T>>: None becomes Undef.
Optional_from_Option_none_as_undef(val) ==
  IF val.some THEN Optional_Def(val.val) ELSE Optional_Undef

Optional_from_Option(val) ==
  IF val.some THEN Optional_Def(val.val) ELSE Optional_Null

Optional_is_def(self) == self.tag = "Def"

Optional_is_null(self) == self.tag = "Null"

\* Faulty variant of expect: the caller's message is dropped for a fixed one.
Optional_expect_fixed_msg(self, msg) ==
  IF self.tag = "Def" THEN Returned(self.val)
  ELSE Panicked("called Optional::expect() on a 'Optional::Null' value")

Optional_expect(self, msg) ==
  IF self.tag = "Def" THEN Returned(self.val) ELSE Panicked(msg)

\* The fixed panic message of unwrap; the source's backquotes are written as
\* apostrophes here.
Optional_unwrap(self) ==
  IF self.tag = "Def" THEN Returned(self.val)
  ELSE Panicked("called Optional::unwrap() on a 'Optional::Null' value")

Optional_unwrap_or(self, default) ==
  IF self.tag = "Def" THEN Returned(self.val) ELSE Returned(default)

Optional_unwrap_or_else(self, f) ==
  IF self.tag = "Def" THEN Returned(self.val) ELSE Returned(f)

Optional_unwrap_or_default(self) ==
  IF self.tag = "Def" THEN Returned(self.val) ELSE Returned(T_default)

\* map and inspect take a closure; what they produce is the returned value
\* together with the payloads the closure was invoked on, in order.

\* Faulty variant of map: Null is collapsed into Undef.
Optional_map_collapsing(self, f) ==
  IF self.tag = "Def"
  THEN [val |-> Optional_Def(f[self.val]), calls |-> <<self.val>>]
  ELSE [val |-> Optional_Undef, calls |-> <<>>]

Optional_map(self, f) ==
  CASE self.tag = "Def" -> [val |-> Optional_Def(f[self.val]), calls |-> <<self.val>>]
    [] self.tag = "Null" -> [val |-> Optional_Null, calls |-> <<>>]
    [] self.tag = "Undef" -> [val |-> Optional_Undef, calls |-> <<>>]

Optional_inspect(self, f) ==
  [val |-> self, calls |-> IF self.tag = "Def" THEN <<self.val>> ELSE <<>>]

Optional_map_or(self, default, f) ==
  IF self.tag = "Def" THEN Returned(f[self.val]) ELSE Returned(default)

Optional_map_or_else(self, default, f) ==
  IF self.tag = "Def" THEN Returned(f[self.val]) ELSE Returned(default)

Optional_ok_or(self, err) ==
  IF self.tag = "Def" THEN Returned(Ok(self.val)) ELSE Returned(Err(err))

Optional_ok_or_else(self, err) ==
  IF self.tag = "Def" THEN Returned(Ok(self.val)) ELSE Returned(Err(err))

\* Faulty variant of def_or: Null is treated like Undef.
Optional_def_or_null_as_undef(self, default) ==
  IF self.tag = "Def" THEN Some(self.val) ELSE Some(default)

Optional_def_or(self, default) ==
  CASE self.tag = "Def" -> Some(self.val)
    [] self.tag = "Null" -> None
    [] self.tag = "Undef" -> Some(default)

Optional_into_Option_Option(value) ==
  CASE value.tag = "Def" -> Some(Some(value.val))
    [] value.tag = "Null" -> None
    [] value.tag = "Undef" -> Some(None)

\* Faulty variant of the conversion to Option<T>: Null becomes Some(default).
Optional_into_Option_null_as_default(value) ==
  CASE value.tag = "Def" -> Some(value.val)
    [] value.tag = "Null" -> Some(T_default)
    [] value.tag = "Undef" -> None

Optional_into_Option(value) ==
  IF value.tag = "Def" THEN Some(value.val) ELSE None

\* ------------------------------------------------------------- Defined<T>

Defined_Undef == [tag |-> "Undef"]
Defined_Def(v) == [tag |-> "Def", val |-> v]

DefinedT == {Defined_Undef} \cup {Defined_Def(v) : v \in T}

Defined_default == Defined_Undef

Defined_from_T(val) == Defined_Def(val)

Defined_expect(self, msg) ==
  IF self.tag = "Def" THEN Returned(self.val) ELSE Panicked(msg)

Defined_unwrap(self) ==
  IF self.tag = "Def" THEN Returned(self.val)
  ELSE Panicked("called Defined::unwrap() on a 'Defined::Undef' value")

Defined_unwrap_or(self, default) ==
  IF self.tag = "Def" THEN Returned(self.val) ELSE Returned(default)

Defined_unwrap_or_else(self, f) ==
  IF self.tag = "Def" THEN Returned(self.val) ELSE Returned(f)

Defined_unwrap_or_default(self) ==
  IF self.tag = "Def" THEN Returned(self.val) ELSE Returned(T_default)

Defined_map(self, f) ==
  CASE self.tag = "Def" -> [val |-> Defined_Def(f[self.val]), calls |-> <<self.val>>]
    [] self.tag = "Undef" -> [val |-> Defined_Undef, calls |-> <<>>]

Defined_inspect(self, f) ==
  [val |-> self, calls |-> IF self.tag = "Def" THEN <<self.val>> ELSE <<>>]

Defined_map_or(self, default, f) ==
  IF self.tag = "Def" THEN Returned(f[self.val]) ELSE Returned(default)

Defined_map_or_else(self, default, f) ==
  IF self.tag = "Def" THEN Returned(f[self.val]) ELSE Returned(default)

Defined_ok_or(self, err) ==
  IF self.tag = "Def" THEN Returned(Ok(self.val)) ELSE Returned(Err(err))

Defined_ok_or_else(self, err) ==
  IF self.tag = "Def" THEN Returned(Ok(self.val)) ELSE Returned(Err(err))

Defined_def_or(self, default) ==
  IF self.tag = "Def" THEN Some(self.val) ELSE Some(default)

Defined_into_Option_Option(value) ==
  IF value.tag = "Def" THEN Some(Some(value.val)) ELSE Some(None)

Defined_into_Option(value) ==
  IF value.tag = "Def" THEN Some(value.val) ELSE None

\* ------------------------------------------- the codec, as the adapter sees it

\* Tokens of the structured-data codec: the null token, number tokens (one of
\* them, MaxVal + 1, outside T's range) and a string token.
NullTok == [kind |-> "null"]
NumTok(n) == [kind |-> "num", n |-> n]
StrTok == [kind |-> "str"]

Tokens == {NullTok, StrTok} \cup {NumTok(n) : n \in 0 .. MaxVal + 1}

\* T is a type parameter: its own encode and decode routines are whatever the
\* instantiating type brings. Four instantiations are modelled.
\*   "int"      an integer type: encodes v as the number v, decodes numbers in range
\*   "nullable" a type whose value 0 is written as the null token and read back
\*              from it (a unit-like or option-like T)
\*   "lossy"    a type whose encoding drops the low bit of v
\*   "partial"  a type whose encode routine fails on the value MaxVal
Codecs == {"int", "nullable", "lossy", "partial"}

\* T::serialize, reached through serializer.serialize_some(value).
T_serialize(c, v) ==
  CASE c = "nullable" /\ v = 0 -> Ok(NullTok)
    [] c = "lossy" -> Ok(NumTok((v \div 2) * 2))
    [] c = "partial" /\ v = MaxVal -> Err("unsupported value")
    [] OTHER -> Ok(NumTok(v))

\* T::deserialize(deserializer).
T_deserialize(c, tok) ==
  CASE tok.kind = "num" -> IF tok.n \in T THEN Ok(tok.n) ELSE Err("out of range")
    [] tok.kind = "null" -> IF c = "nullable" THEN Ok(0) ELSE Err("invalid type: null")
    [] OTHER -> Err("invalid type: string")

\* ------------------------------------------- OptionalVisitor (serde adapter)

\* Faulty variant of visit_unit: the unit signal yields Undef.
visit_unit_as_undef == Ok(Optional_Undef)

visit_unit == Ok(Optional_Null)

\* Faulty variant of visit_none: the none signal yields Undef.
visit_none_as_undef == Ok(Optional_Undef)

visit_none == Ok(Optional_Null)

\* Faulty variant of visit_some: T's decode error is swallowed into Null.
visit_some_swallowing(c, tok) ==
  IF T_deserialize(c, tok).ok
  THEN Ok(Optional_Def(T_deserialize(c, tok).val))
  ELSE Ok(Optional_Null)

\* T::deserialize(deserializer).map(Optional::Def)
visit_some(c, tok) ==
  IF T_deserialize(c, tok).ok
  THEN Ok(Optional_Def(T_deserialize(c, tok).val))
  ELSE T_deserialize(c, tok)

\* match T::deserialize(deserializer).ok() { Some(val) => Def, None => Null }
private_visit_untagged_option(c, tok) ==
  IF T_deserialize(c, tok).ok
  THEN Ok(Optional_Def(T_deserialize(c, tok).val))
  ELSE Ok(Optional_Null)

\* The callbacks deserialize_option can raise on the visitor.
Signals == {"unit", "none", "some", "untagged"}

\* Optional::<T>::deserialize: deserializer.deserialize_option(OptionalVisitor),
\* resolved to the callback the codec raises for the token it holds.
deserialize(c, sig, tok) ==
  CASE sig = "unit" -> visit_unit
    [] sig = "none" -> visit_none
    [] sig = "some" -> visit_some(c, tok)
    [] sig = "untagged" -> private_visit_untagged_option(c, tok)

\* The callback a self-describing codec raises for the token under a key: the
\* null token is reported as none (or, by unit-style codecs, as unit), any other
\* token as some.
KeySignals(tok) == IF tok = NullTok THEN {"none", "unit"} ELSE {"some"}

serialize_none == Ok(NullTok)

\* Faulty variant of the some-hook: the payload is written as a bare number,
\* bypassing T's own encode routine.
serialize_some_raw(c, value) == Ok(NumTok(value))

serialize_some(c, value) == T_serialize(c, value)

\* Faulty variant of serialize: every variant is written as the null token.
serialize_all_none(c, self) == serialize_none

\* Optional::<T>::serialize
serialize(c, self) ==
  IF self.tag = "Def" THEN serialize_some(c, self.val) ELSE serialize_none

\* ------------------------------------------- OaSchema for Defined<T> (oasgen)

\* An OpenAPI schema: the nullable flag and the rest of the descriptor (its
\* kind and its description), and ReferenceOr<Schema>: an inline item or a
\* reference to a named component.
OaKinds == {"integer", "string", "object"}
OaDescriptions == {"", "a field"}

OaSchemas == [nullable : BOOLEAN, kind : OaKinds, description : OaDescriptions]

Item(schema) == [is_ref |-> FALSE, item |-> schema]
Reference(path) == [is_ref |-> TRUE, reference |-> path]

OaReferences == {Reference("#/components/schemas/T"), Reference("#/components/schemas/U")}

\* The descriptors T can bring: T::schema(), and T::schema_ref(), which is
\* either that schema inline or a reference.
OaSchemaRefs == {Item(schema) : schema \in OaSchemas} \cup OaReferences

\* Faulty variant of schema_ref: the nullable flag is not set.
Defined_schema_ref_unflagged(t_schema_ref) == t_schema_ref

\* fn schema_ref(): a reference has no item to flag and is returned as it is.
Defined_schema_ref(t_schema_ref) ==
  IF t_schema_ref.is_ref
  THEN t_schema_ref
  ELSE Item([t_schema_ref.item EXCEPT !.nullable = TRUE])

\* fn schema()
Defined_schema(t_schema) == [t_schema EXCEPT !.nullable = TRUE]

\* ---------------------------------------- JsonSchema for Defined<T> (schemars)

\* Instance-type lists of T's schema hold at most MaxTypes types.
MaxTypes == 2

InstanceTypes == {"null", "integer", "string"}

\* SingleOrVec<InstanceType>, inside Option: absent, one type, or a list.
NoInstanceType == [set |-> "none"]
Single(ty) == [set |-> "single", ty |-> ty]
Vec(tys) == [set |-> "vec", tys |-> tys]

\* Extensions of a schema object: a map from keys to JSON values.
NoExtensions == [k \in {} |-> TRUE]
insert(map, key, value) ==
  [k \in DOMAIN map \cup {key} |-> IF k = key THEN value ELSE map[k]]

\* Schema::Bool and Schema::Object. Of a SchemaObject the model keeps the
\* instance type, the reference, the subschemas' any_of and not, and the
\* extensions.
SchemaBool(b) == [shape |-> "bool", value |-> b]
SchemaObject(instance_type, reference, any_of, not_schema, extensions) ==
  [shape |-> "object", instance_type |-> instance_type, reference |-> reference,
   any_of |-> any_of, not_schema |-> not_schema, extensions |-> extensions]

\* SchemaObject::default()
SchemaObject_default == SchemaObject(NoInstanceType, "", None, None, NoExtensions)

\* <()>::json_schema(gen): the null-only schema.
unit_json_schema ==
  SchemaObject(Single("null"), "", None, None, NoExtensions)

\* Schema::into_object
into_object(schema) ==
  IF schema.shape = "object" THEN schema
  ELSE IF schema.value THEN SchemaObject_default
  ELSE SchemaObject(NoInstanceType, "", None, Some(SchemaObject_default), NoExtensions)

contains(tys, ty) == \E i \in 1 .. Len(tys) : tys[i] = ty

\* Faulty variant of add_null_type: null is pushed without looking for it.
add_null_type_unchecked(instance_type) ==
  IF instance_type.set = "single"
  THEN Vec(<<instance_type.ty, "null">>)
  ELSE Vec(Append(instance_type.tys, "null"))

add_null_type(instance_type) ==
  CASE instance_type.set = "single" /\ instance_type.ty # "null" ->
         Vec(<<instance_type.ty, "null">>)
    [] instance_type.set = "vec" /\ ~contains(instance_type.tys, "null") ->
         Vec(Append(instance_type.tys, "null"))
    [] OTHER -> instance_type

\* The first half of json_schema, taken when option_add_null_type is set.
with_null_type(schema) ==
  CASE schema.shape = "bool" /\ schema.value -> SchemaBool(TRUE)
    [] schema.shape = "bool" /\ ~schema.value -> unit_json_schema
    [] schema.shape = "object" /\ schema.instance_type.set # "none" ->
         [schema EXCEPT !.instance_type = add_null_type(schema.instance_type)]
    [] OTHER ->
         SchemaObject(NoInstanceType, "", Some(<<schema, unit_json_schema>>), None,
                      NoExtensions)

\* The second half of json_schema, taken when option_nullable is set.
with_nullable_extension(schema) ==
  [into_object(schema) EXCEPT
     !.extensions = insert(into_object(schema).extensions, "nullable", TRUE)]

\* Defined::<T>::json_schema(gen): settings are gen.settings(), schema is
\* gen.subschema_for::<T>().
json_schema(settings, schema) ==
  LET widened == IF settings.option_add_null_type THEN with_null_type(schema)
                 ELSE schema
  IN IF settings.option_nullable THEN with_nullable_extension(widened) ELSE widened

\* gen.settings(): every combination of the two switches.
SchemaSettings == [option_add_null_type : BOOLEAN, option_nullable : BOOLEAN]

\* The lists of distinct instance types of length 1 .. MaxTypes.
TypeLists ==
  {tys \in UNION {[1 .. n -> InstanceTypes] : n \in 1 .. MaxTypes} :
     \A i, j \in 1 .. Len(tys) : i # j => tys[i] # tys[j]}

JsonExtensions == {NoExtensions, insert(NoExtensions, "x-doc", TRUE)}

\* gen.subschema_for::<T>(): the schemas T can bring: true, false, an object
\* with instance types, a reference to a definition, or an untyped object.
JsonSubschemas ==
  {SchemaBool(TRUE), SchemaBool(FALSE)}
    \cup {SchemaObject(it, "", None, None, ext) :
            it \in {Single(ty) : ty \in InstanceTypes} \cup {Vec(tys) : tys \in TypeLists},
            ext \in JsonExtensions}
    \cup {SchemaObject(NoInstanceType, ref, None, None, ext) :
            ref \in {"", "#/definitions/T"}, ext \in JsonExtensions}

\* ------------------------------------- sea_query Value for Defined<T> (sea)

\* Driver values: a kind and an optional payload; the payload None is that
\* kind's null. T's values are of kind "Int"; "String" values belong to other
\* column types.
Value(kind, payload) == [kind |-> kind, payload |-> payload]

Values ==
  {Value("Int", None), Value("String", None), Value("String", Some("text"))}
    \cup {Value("Int", Some(n)) : n \in 0 .. MaxVal + 1}

\* T::null()
T_null == Value("Int", None)

\* T's own v.into(): per instantiation of T, as for the codec: "nullable"
\* stores its value 0 as the null, "lossy" drops the low bit.
T_into_Value(c, v) ==
  CASE c = "nullable" /\ v = 0 -> Value("Int", None)
    [] c = "lossy" -> Value("Int", Some((v \div 2) * 2))
    [] OTHER -> Value("Int", Some(v))

\* T::try_from(v)
T_try_from(c, v) ==
  CASE v.kind = "Int" /\ v.payload.some /\ v.payload.val \in T -> Ok(v.payload.val)
    [] v.kind = "Int" /\ ~v.payload.some /\ c = "nullable" -> Ok(0)
    [] OTHER -> Err("ValueTypeErr")

\* impl From<Defined<T>> for Value
Defined_into_Value(c, value) ==
  IF value.tag = "Def" THEN T_into_Value(c, value.val) ELSE T_null

\* Faulty variant of try_from: the value is not tested against T::null().
Defined_try_from_untested(c, v) ==
  IF T_try_from(c, v).ok THEN Ok(Defined_Def(T_try_from(c, v).val))
  ELSE T_try_from(c, v)

\* <Defined<T> as ValueType>::try_from
Defined_try_from(c, v) ==
  IF v = T_null THEN Ok(Defined_Undef)
  ELSE IF T_try_from(c, v).ok THEN Ok(Defined_Def(T_try_from(c, v).val))
  ELSE T_try_from(c, v)

\* ------------------------------------------------------------ the program

\* codec  the instantiation of T's encode/decode routines, fixed for a run
\* x, d   the ternary and the binary value the program holds
\* wire   the token last written by serialize together with the value it was
\*        written from, or empty
\* column the driver value last bound by the ORM adapter together with the
\*        value it was bound from, or empty
\* pc     "running", or "panicked" once a call has panicked
\* op, ty, self, args, out   the last call: its name, the type it was made on,
\*        its receiver, its arguments and what it produced
VARIABLES codec, x, d, wire, column, pc, op, ty, self, args, out

vars == <<codec, x, d, wire, column, pc, op, ty, self, args, out>>

Types == {"Optional", "Defined"}

NoSelf == [tag |-> "none"]
NoArgs == [none |-> TRUE]
EmptyWire == [full |-> FALSE]
EmptyColumn == [full |-> FALSE]

Call(o, t, s, a, r) ==
  /\ op' = o
  /\ ty' = t
  /\ self' = s
  /\ args' = a
  /\ out' = r

\* A call that can panic leaves the program panicked when it does.
Outcome(r) == pc' = IF r.panic THEN "panicked" ELSE "running"

Held(t) == IF t = "Optional" THEN x ELSE d

Init ==
  /\ codec \in Codecs
  /\ x = Optional_default
  /\ d = Defined_default
  /\ wire = EmptyWire
  /\ column = EmptyColumn
  /\ pc = "running"
  /\ op = "init"
  /\ ty = "Optional"
  /\ self = NoSelf
  /\ args = NoArgs
  /\ out = NoArgs

\* ---- construction

OptionalDefault ==
  /\ pc = "running"
  /\ x' = Optional_default
  /\ Call("default", "Optional", NoSelf, NoArgs, Optional_default)
  /\ UNCHANGED <<codec, column, d, wire, pc>>

DefinedDefault ==
  /\ pc = "running"
  /\ d' = Defined_default
  /\ Call("default", "Defined", NoSelf, NoArgs, Defined_default)
  /\ UNCHANGED <<codec, column, x, wire, pc>>

OptionalFromT ==
  /\ pc = "running"
  /\ \E v \in T :
       /\ x' = Optional_from_T(v)
       /\ Call("from_T", "Optional", NoSelf, [val |-> v], Optional_from_T(v))
  /\ UNCHANGED <<codec, column, d, wire, pc>>

OptionalFromOption ==
  /\ pc = "running"
  /\ \E o \in OptionT :
       /\ x' = Optional_from_Option(o)
       /\ Call("from_Option", "Optional", NoSelf, [val |-> o], Optional_from_Option(o))
  /\ UNCHANGED <<codec, column, d, wire, pc>>

DefinedFromT ==
  /\ pc = "running"
  /\ \E v \in T :
       /\ d' = Defined_from_T(v)
       /\ Call("from_T", "Defined", NoSelf, [val |-> v], Defined_from_T(v))
  /\ UNCHANGED <<codec, column, x, wire, pc>>

\* ---- conversions to the native option types

OptionalIntoOptionOption ==
  /\ pc = "running"
  /\ Call("into_Option_Option", "Optional", x, NoArgs, Optional_into_Option_Option(x))
  /\ UNCHANGED <<codec, column, x, d, wire, pc>>

OptionalIntoOption ==
  /\ pc = "running"
  /\ Call("into_Option", "Optional", x, NoArgs, Optional_into_Option(x))
  /\ UNCHANGED <<codec, column, x, d, wire, pc>>

DefinedIntoOptionOption ==
  /\ pc = "running"
  /\ Call("into_Option_Option", "Defined", d, NoArgs, Defined_into_Option_Option(d))
  /\ UNCHANGED <<codec, column, x, d, wire, pc>>

DefinedIntoOption ==
  /\ pc = "running"
  /\ Call("into_Option", "Defined", d, NoArgs, Defined_into_Option(d))
  /\ UNCHANGED <<codec, column, x, d, wire, pc>>

OptionalDefOr ==
  /\ pc = "running"
  /\ \E default \in T :
       Call("def_or", "Optional", x, [default |-> default], Optional_def_or(x, default))
  /\ UNCHANGED <<codec, column, x, d, wire, pc>>

DefinedDefOr ==
  /\ pc = "running"
  /\ \E default \in T :
       Call("def_or", "Defined", d, [default |-> default], Defined_def_or(d, default))
  /\ UNCHANGED <<codec, column, x, d, wire, pc>>

\* ---- value extraction, on either type

Expect ==
  /\ pc = "running"
  /\ \E t \in Types, msg \in Msgs :
       LET r == IF t = "Optional" THEN Optional_expect(x, msg)
                ELSE Defined_expect(d, msg)
       IN Call("expect", t, Held(t), [msg |-> msg], r) /\ Outcome(r)
  /\ UNCHANGED <<codec, column, x, d, wire>>

Unwrap ==
  /\ pc = "running"
  /\ \E t \in Types :
       LET r == IF t = "Optional" THEN Optional_unwrap(x) ELSE Defined_unwrap(d)
       IN Call("unwrap", t, Held(t), NoArgs, r) /\ Outcome(r)
  /\ UNCHANGED <<codec, column, x, d, wire>>

UnwrapOr ==
  /\ pc = "running"
  /\ \E t \in Types, default \in T :
       LET r == IF t = "Optional" THEN Optional_unwrap_or(x, default)
                ELSE Defined_unwrap_or(d, default)
       IN Call("unwrap_or", t, Held(t), [default |-> default], r) /\ Outcome(r)
  /\ UNCHANGED <<codec, column, x, d, wire>>

\* f is the value the closure FnOnce() -> T returns.
UnwrapOrElse ==
  /\ pc = "running"
  /\ \E t \in Types, f \in T :
       LET r == IF t = "Optional" THEN Optional_unwrap_or_else(x, f)
                ELSE Defined_unwrap_or_else(d, f)
       IN Call("unwrap_or_else", t, Held(t), [f |-> f], r) /\ Outcome(r)
  /\ UNCHANGED <<codec, column, x, d, wire>>

UnwrapOrDefault ==
  /\ pc = "running"
  /\ \E t \in Types :
       LET r == IF t = "Optional" THEN Optional_unwrap_or_default(x)
                ELSE Defined_unwrap_or_default(d)
       IN Call("unwrap_or_default", t, Held(t), NoArgs, r) /\ Outcome(r)
  /\ UNCHANGED <<codec, column, x, d, wire>>

MapOr ==
  /\ pc = "running"
  /\ \E t \in Types, default \in T, f \in Fns :
       LET r == IF t = "Optional" THEN Optional_map_or(x, default, f)
                ELSE Defined_map_or(d, default, f)
       IN Call("map_or", t, Held(t), [default |-> default, f |-> f], r) /\ Outcome(r)
  /\ UNCHANGED <<codec, column, x, d, wire>>

\* default is the value the closure FnOnce() -> U returns.
MapOrElse ==
  /\ pc = "running"
  /\ \E t \in Types, default \in T, f \in Fns :
       LET r == IF t = "Optional" THEN Optional_map_or_else(x, default, f)
                ELSE Defined_map_or_else(d, default, f)
       IN Call("map_or_else", t, Held(t), [default |-> default, f |-> f], r) /\ Outcome(r)
  /\ UNCHANGED <<codec, column, x, d, wire>>

OkOr ==
  /\ pc = "running"
  /\ \E t \in Types, err \in Errs :
       LET r == IF t = "Optional" THEN Optional_ok_or(x, err)
                ELSE Defined_ok_or(d, err)
       IN Call("ok_or", t, Held(t), [err |-> err], r) /\ Outcome(r)
  /\ UNCHANGED <<codec, column, x, d, wire>>

\* err is the value the closure FnOnce() -> E returns.
OkOrElse ==
  /\ pc = "running"
  /\ \E t \in Types, err \in Errs :
       LET r == IF t = "Optional" THEN Optional_ok_or_else(x, err)
                ELSE Defined_ok_or_else(d, err)
       IN Call("ok_or_else", t, Held(t), [err |-> err], r) /\ Outcome(r)
  /\ UNCHANGED <<codec, column, x, d, wire>>

\* ---- transforms, on either type

Map ==
  /\ pc = "running"
  /\ \E t \in Types, f \in Fns :
       Call("map", t, Held(t), [f |-> f],
            IF t = "Optional" THEN Optional_map(x, f) ELSE Defined_map(d, f))
  /\ UNCHANGED <<codec, column, x, d, wire, pc>>

Inspect ==
  /\ pc = "running"
  /\ \E t \in Types, f \in Fns :
       Call("inspect", t, Held(t), [f |-> f],
            IF t = "Optional" THEN Optional_inspect(x, f) ELSE Defined_inspect(d, f))
  /\ UNCHANGED <<codec, column, x, d, wire, pc>>

\* ---- the serde adapter of Optional<T>

\* The field's decode step on its own: the codec raises one callback on the
\* visitor, with the token it holds. A successful decode replaces the held value.
Deserialize ==
  /\ pc = "running"
  /\ \E sig \in Signals, tok \in Tokens :
       LET r == deserialize(codec, sig, tok)
       IN /\ x' = IF r.ok THEN r.val ELSE x
          /\ Call("deserialize", "Optional", NoSelf, [sig |-> sig, tok |-> tok], r)
  /\ UNCHANGED <<codec, column, d, wire, pc>>

\* A record with one field "x" that defaults when its key is missing: the field
\* starts at Optional::default() and its decode step runs only when the key is
\* there, under the callback the codec raises for the key's token.
DecodeRecord ==
  /\ pc = "running"
  /\ \/ /\ x' = Optional_default
        /\ Call("decode_record", "Optional", NoSelf, [key |-> FALSE], Ok(Optional_default))
     \/ \E tok \in Tokens : \E sig \in KeySignals(tok) :
          LET r == deserialize(codec, sig, tok)
          IN /\ x' = IF r.ok THEN r.val ELSE x
             /\ Call("decode_record", "Optional", NoSelf,
                     [key |-> TRUE, sig |-> sig, tok |-> tok], r)
  /\ UNCHANGED <<codec, column, d, wire, pc>>

\* Encoding the held value; a token that was produced goes onto the wire.
Serialize ==
  /\ pc = "running"
  /\ LET r == serialize(codec, x)
     IN /\ wire' = IF r.ok THEN [full |-> TRUE, tok |-> r.val, sent |-> x] ELSE wire
        /\ Call("serialize", "Optional", x, NoArgs, r)
  /\ UNCHANGED <<codec, column, x, d, pc>>

\* Decoding what serialize wrote: the token is taken off the wire and decoded
\* under the callback the codec raises for it.
Receive ==
  /\ pc = "running"
  /\ wire.full
  /\ \E sig \in KeySignals(wire.tok) :
       LET r == deserialize(codec, sig, wire.tok)
       IN /\ x' = IF r.ok THEN r.val ELSE x
          /\ Call("receive", "Optional", wire.sent, [sig |-> sig, tok |-> wire.tok], r)
  /\ wire' = EmptyWire
  /\ UNCHANGED <<codec, column, d, pc>>

\* ---- schema generation

OaSchemaRef ==
  /\ pc = "running"
  /\ \E t_schema_ref \in OaSchemaRefs :
       Call("schema_ref", "Defined", NoSelf, [t |-> t_schema_ref],
            Defined_schema_ref(t_schema_ref))
  /\ UNCHANGED <<codec, column, x, d, wire, pc>>

OaSchema ==
  /\ pc = "running"
  /\ \E t_schema \in OaSchemas :
       Call("schema", "Defined", NoSelf, [t |-> t_schema], Defined_schema(t_schema))
  /\ UNCHANGED <<codec, column, x, d, wire, pc>>

Next ==
  \/ OptionalDefault
  \/ DefinedDefault
  \/ OptionalFromT
  \/ OptionalFromOption
  \/ DefinedFromT
  \/ OptionalIntoOptionOption
  \/ OptionalIntoOption
  \/ DefinedIntoOptionOption
  \/ DefinedIntoOption
  \/ OptionalDefOr
  \/ DefinedDefOr
  \/ Expect
  \/ Unwrap
  \/ UnwrapOr
  \/ UnwrapOrElse
  \/ UnwrapOrDefault
  \/ MapOr
  \/ MapOrElse
  \/ OkOr
  \/ OkOrElse
  \/ Map
  \/ Inspect
  \/ Deserialize
  \/ DecodeRecord
  \/ Serialize
  \/ Receive

Spec == Init /\ [][Next]_vars

JsonSchema ==
  /\ pc = "running"
  /\ \E settings \in SchemaSettings, schema \in JsonSubschemas :
       Call("json_schema", "Defined", NoSelf, [settings |-> settings, t |-> schema],
            json_schema(settings, schema))
  /\ UNCHANGED <<codec, column, x, d, wire, pc>>

\* Schema generation on its own: the descriptors do not depend on the values
\* the program holds.
SchemaNext ==
  \/ OaSchemaRef
  \/ OaSchema
  \/ JsonSchema

SchemaSpec == Init /\ [][SchemaNext]_vars

\* ---- the ORM value boundary

\* Binding the held binary value as a driver value.
IntoValue ==
  /\ pc = "running"
  /\ column' = [full |-> TRUE, value |-> Defined_into_Value(codec, d), sent |-> d]
  /\ Call("into_Value", "Defined", d, NoArgs, Defined_into_Value(codec, d))
  /\ UNCHANGED <<codec, x, d, wire, pc>>

\* Reading any driver value; a successful read replaces the held value.
TryFromValue ==
  /\ pc = "running"
  /\ \E v \in Values :
       LET r == Defined_try_from(codec, v)
       IN /\ d' = IF r.ok THEN r.val ELSE d
          /\ Call("try_from", "Defined", NoSelf, [v |-> v], r)
  /\ UNCHANGED <<codec, x, wire, column, pc>>

\* Reading back the driver value that was bound last.
Fetch ==
  /\ pc = "running"
  /\ column.full
  /\ LET r == Defined_try_from(codec, column.value)
     IN /\ d' = IF r.ok THEN r.val ELSE d
        /\ Call("fetch", "Defined", column.sent, [v |-> column.value], r)
  /\ column' = EmptyColumn
  /\ UNCHANGED <<codec, x, wire, pc>>

ValueNext ==
  \/ DefinedDefault
  \/ DefinedFromT
  \/ IntoValue
  \/ TryFromValue
  \/ Fetch

ValueSpec == Init /\ [][ValueNext]_vars

\* ------------------------------------------------------------ properties

\* C1: Optional<T> -> Option<Option<T>> maps Def(v) to Some(Some(v)), Null to
\* Some(None) and Undef to None.
C1_IntoOptionOption ==
  (op = "into_Option_Option" /\ ty = "Optional") =>
    out = CASE self.tag = "Def" -> Some(Some(self.val))
            [] self.tag = "Null" -> Some(None)
            [] self.tag = "Undef" -> None

\* C2: Optional::def_or(default) returns None on Null, Some(default) on Undef
\* and Some(v) on Def(v); on Null and Def the result is the same for every
\* default.
C2_DefOr ==
  (op = "def_or" /\ ty = "Optional") =>
    /\ self.tag = "Null" => out = None
    /\ self.tag = "Undef" => out = Some(args.default)
    /\ self.tag = "Def" => out = Some(self.val)
    /\ self.tag # "Undef" => \A other \in T : Optional_def_or(self, other) = out

C2_Witness ==
  /\ op = "def_or"
  /\ ty = "Optional"
  /\ self = Optional_Null
  /\ args.default = MaxVal
  /\ out = None

\* C3: decoding a record whose field defaults yields Undef when the key is
\* omitted, Null when the key holds the null token and Def(v) when the key
\* holds a token that T decodes to v; the field is then in three different
\* states for the three shapes.
C3_DecodeRecord ==
  op = "decode_record" =>
    /\ ~args.key => (out = Ok(Optional_Undef) /\ x = Optional_Undef)
    /\ (args.key /\ args.tok = NullTok) => (out = Ok(Optional_Null) /\ x = Optional_Null)
    /\ (args.key /\ args.tok # NullTok /\ T_deserialize(codec, args.tok).ok) =>
         /\ out = Ok(Optional_Def(T_deserialize(codec, args.tok).val))
         /\ x = Optional_Def(T_deserialize(codec, args.tok).val)
    /\ out.ok =>
         /\ out.val.tag = "Undef" <=> ~args.key
         /\ out.val.tag = "Null" <=> (args.key /\ args.tok = NullTok)
         /\ out.val.tag = "Def" <=> (args.key /\ args.tok # NullTok)

C3_Witness ==
  /\ op = "decode_record"
  /\ args.key
  /\ args.tok = NullTok
  /\ args.sig = "none"
  /\ x = Optional_Null

\* The calls that run the field's decode step.
DecodeStep ==
  \/ op = "deserialize"
  \/ op = "receive"
  \/ (op = "decode_record" /\ args.key)

\* C4: the decode step never yields Undef: unit and none yield Null, some
\* yields Def or an error; the held value becomes Undef only by default
\* construction (directly, or as the field default of a record without the key).
C4_NeverUndef ==
  /\ [](DecodeStep =>
          /\ out.ok => out.val # Optional_Undef
          /\ args.sig \in {"unit", "none"} => out = Ok(Optional_Null)
          /\ args.sig = "some" => (~out.ok \/ out.val.tag = "Def"))
  /\ [][(x' = Optional_Undef /\ x # Optional_Undef) =>
          (op' = "default" \/ (op' = "decode_record" /\ ~args'.key))]_vars

C4_Witness ==
  /\ op = "deserialize"
  /\ args.sig = "unit"
  /\ out = Ok(Optional_Null)
  /\ x = Optional_Null

\* C5 (as claimed): on visit_some and on the untagged-option path alike, a
\* failure of T's decode is returned as the decode error.
C5_ErrorPropagatesOnBothPaths ==
  (DecodeStep /\ args.sig \in {"some", "untagged"}
     /\ ~T_deserialize(codec, args.tok).ok) =>
    out = Err(T_deserialize(codec, args.tok).err)

\* C5 (amended): on visit_some a failure of T's decode is returned unchanged
\* and leaves the held value alone; on the untagged-option path the failure is
\* discarded and the result is Ok(Null); every error the adapter returns is
\* T's own error from visit_some.
C5_ErrorPropagatesOnVisitSome ==
  DecodeStep =>
    /\ (args.sig = "some" /\ ~T_deserialize(codec, args.tok).ok) =>
         out = Err(T_deserialize(codec, args.tok).err)
    /\ (args.sig = "untagged" /\ ~T_deserialize(codec, args.tok).ok) =>
         out = Ok(Optional_Null)
    /\ ~out.ok =>
         /\ args.sig = "some"
         /\ ~T_deserialize(codec, args.tok).ok
         /\ out.err = T_deserialize(codec, args.tok).err

C5_Witness ==
  /\ op = "deserialize"
  /\ args.sig = "some"
  /\ args.tok = StrTok
  /\ out = Err("invalid type: string")

\* C6: serialize writes T's own encoding of v for Def(v), returning T's encode
\* error unchanged, and the null token for Undef and for Null.
C6_Serialize ==
  op = "serialize" =>
    /\ self.tag = "Def" => out = T_serialize(codec, self.val)
    /\ self.tag \in {"Undef", "Null"} => out = Ok(NullTok)
    /\ serialize(codec, Optional_Undef) = serialize(codec, Optional_Null)

C6_Witness ==
  /\ op = "serialize"
  /\ self.tag = "Def"
  /\ codec = "lossy"
  /\ self.val = 1
  /\ out = Ok(NumTok(0))

\* C7: when T's encoding of v is not the null token and decodes back to v,
\* serialize followed by deserialize takes Def(v) to Def(v); it takes Null to
\* Null.
C7_RoundTrip ==
  op = "receive" =>
    /\ (/\ self.tag = "Def"
        /\ T_serialize(codec, self.val).ok
        /\ T_serialize(codec, self.val).val # NullTok
        /\ T_deserialize(codec, T_serialize(codec, self.val).val) = Ok(self.val)) =>
         (out = Ok(self) /\ x = self)
    /\ self = Optional_Null => (out = Ok(Optional_Null) /\ x = Optional_Null)

C7_Witness ==
  /\ op = "receive"
  /\ self = Optional_Def(MaxVal)
  /\ out = Ok(Optional_Def(MaxVal))
  /\ x = Optional_Def(MaxVal)

\* C8: for both types the conversion to Option<T> maps Def(v) to Some(v) and
\* every other variant to None.
C8_IntoOption ==
  op = "into_Option" =>
    /\ self.tag = "Def" => out = Some(self.val)
    /\ self.tag # "Def" => out = None

C8_Witness ==
  /\ op = "into_Option"
  /\ ty = "Optional"
  /\ self = Optional_Null
  /\ out = None

\* C9: Defined<T> -> Option<Option<T>> maps Def(v) to Some(Some(v)) and Undef
\* to None.
C9_DefinedIntoOptionOption ==
  (op = "into_Option_Option" /\ ty = "Defined") =>
    out = IF self.tag = "Def" THEN Some(Some(self.val)) ELSE None

Fallbacks ==
  {"unwrap_or", "unwrap_or_else", "unwrap_or_default", "map_or", "map_or_else",
   "ok_or", "ok_or_else"}

\* C10: on both types unwrap and expect return v on Def(v) and panic on every
\* other variant, expect with exactly the caller's message; the fallback
\* combinators never panic.
C10_UnwrapPanics ==
  /\ op \in {"unwrap", "expect"} =>
       /\ self.tag = "Def" => (out = Returned(self.val) /\ pc = "running")
       /\ self.tag # "Def" => (out.panic /\ pc = "panicked")
       /\ (op = "expect" /\ self.tag # "Def") => out = Panicked(args.msg)
  /\ op \in Fallbacks => (~out.panic /\ pc = "running")
  /\ pc = "panicked" => op \in {"unwrap", "expect"}

C10_Witness ==
  /\ op = "expect"
  /\ ty = "Optional"
  /\ self = Optional_Null
  /\ args.msg = "msg_b"
  /\ out = Panicked("msg_b")
  /\ pc = "panicked"

\* C11: on both types map(f) takes Def(v) to Def(f(v)), invoking f once on v,
\* and returns Undef and Null as they are without invoking f; inspect(f)
\* returns its receiver for every variant and invokes f only on a Def payload.
C11_MapInspect ==
  /\ op = "map" =>
       /\ self.tag = "Def" =>
            (out.val = [tag |-> "Def", val |-> args.f[self.val]]
               /\ out.calls = <<self.val>>)
       /\ self.tag # "Def" => (out.val = self /\ out.calls = <<>>)
  /\ op = "inspect" =>
       /\ out.val = self
       /\ self.tag = "Def" => out.calls = <<self.val>>
       /\ self.tag # "Def" => out.calls = <<>>

C11_Witness ==
  /\ op = "map"
  /\ ty = "Optional"
  /\ self = Optional_Null
  /\ out.val = Optional_Null
  /\ out.calls = <<>>

\* C12: From<Option<T>> takes Some(v) to Def(v) and None to Null, never to
\* Undef; From<T> always yields Def; converting the constructed value back to
\* Option<T> gives the option it was built from.
C12_FromOption ==
  /\ (op = "from_Option" /\ ty = "Optional") =>
       /\ args.val.some => out = Optional_Def(args.val.val)
       /\ ~args.val.some => out = Optional_Null
       /\ out # Optional_Undef
       /\ x = out
       /\ Optional_into_Option(x) = args.val
  /\ (op = "from_T" /\ ty = "Optional") =>
       (out = Optional_Def(args.val) /\ x = out)

C12_Witness ==
  /\ op = "from_Option"
  /\ ty = "Optional"
  /\ args.val = None
  /\ x = Optional_Null
  /\ Optional_into_Option(x) = None

\* C13 (as claimed): schema() and schema_ref() both return T's descriptor with
\* the nullable flag set and the rest unchanged, also when T's schema_ref() is
\* a reference.
C13_BothNullable ==
  /\ op = "schema" => out = [args.t EXCEPT !.nullable = TRUE]
  /\ op = "schema_ref" =>
       /\ ~out.is_ref
       /\ out.item.nullable
       /\ ~args.t.is_ref => out = Item([args.t.item EXCEPT !.nullable = TRUE])

\* C13 (amended): schema() returns T's descriptor with the nullable flag set
\* and the rest unchanged, and so does schema_ref() when T's schema_ref() is
\* inline; when it is a reference, schema_ref() returns the reference as it
\* is, with no nullable flag.
C13_NullableUnlessReference ==
  /\ op = "schema" =>
       /\ out.nullable
       /\ out.kind = args.t.kind
       /\ out.description = args.t.description
  /\ op = "schema_ref" =>
       /\ out.is_ref = args.t.is_ref
       /\ args.t.is_ref => out = args.t
       /\ ~args.t.is_ref =>
            /\ out.item.nullable
            /\ out.item.kind = args.t.item.kind
            /\ out.item.description = args.t.item.description

C13_Witness ==
  /\ op = "schema_ref"
  /\ ~args.t.is_ref
  /\ ~args.t.item.nullable
  /\ args.t.item.kind = "integer"
  /\ out.item.nullable
  /\ out.item.kind = "integer"

\* The instance types of a schema object, as a list.
TypesOf(instance_type) ==
  CASE instance_type.set = "none" -> <<>>
    [] instance_type.set = "single" -> <<instance_type.ty>>
    [] instance_type.set = "vec" -> instance_type.tys

Count(tys, wanted) == Cardinality({i \in 1 .. Len(tys) : tys[i] = wanted})

\* The schema admits null through its type: it is the true schema, lists null
\* among its instance types, is an any-of union with the null-only schema, or
\* constrains nothing.
NullByType(schema) ==
  IF schema.shape = "bool" THEN schema.value
  ELSE /\ schema.not_schema = None
       /\ \/ contains(TypesOf(schema.instance_type), "null")
          \/ (schema.any_of.some /\ contains(schema.any_of.val, unit_json_schema))
          \/ (schema.instance_type = NoInstanceType /\ ~schema.any_of.some
                /\ schema.reference = "")

\* The schema carries the extension "nullable": true.
NullableFlag(schema) ==
  /\ schema.shape = "object"
  /\ "nullable" \in DOMAIN schema.extensions
  /\ schema.extensions["nullable"] = TRUE

\* The instance-type list after null is added: null once, the original types
\* kept in place, nothing else added.
NullAddedOnce(before, after) ==
  /\ Count(after, "null") = 1
  /\ Len(after) = Len(before) + (IF contains(before, "null") THEN 0 ELSE 1)
  /\ \A i \in 1 .. Len(before) : after[i] = before[i]

\* C14 (as claimed): for every combination of the two settings and every shape
\* of T's subschema, exactly one of the two conventions is applied, and null is
\* added to an instance-type list once, with T's types kept.
C14_ExactlyOneConvention ==
  op = "json_schema" =>
    /\ NullByType(out) # NullableFlag(out)
    /\ (args.t.shape = "object" /\ args.t.instance_type.set # "none"
          /\ args.settings.option_add_null_type) =>
         NullAddedOnce(TypesOf(args.t.instance_type), TypesOf(out.instance_type))

\* C14 (amended): each setting switches its own convention: the result carries
\* "nullable": true exactly when option_nullable is set; it admits null through
\* its type when option_add_null_type is set, and exactly as T's subschema did
\* when it is not. So exactly one convention is applied when exactly one
\* setting is on, both when both are, neither when neither is. Null is added
\* to an instance-type list once, with T's types, reference and extensions kept.
C14_ConventionPerSetting ==
  op = "json_schema" =>
    /\ NullableFlag(out) <=> args.settings.option_nullable
    /\ args.settings.option_add_null_type => NullByType(out)
    /\ ~args.settings.option_add_null_type => (NullByType(out) <=> NullByType(args.t))
    /\ (~args.settings.option_add_null_type /\ ~args.settings.option_nullable) =>
         out = args.t
    /\ (args.settings.option_add_null_type # args.settings.option_nullable
          /\ ~NullByType(args.t)) =>
         NullByType(out) # NullableFlag(out)
    /\ (args.settings.option_add_null_type /\ args.settings.option_nullable) =>
         (NullByType(out) /\ NullableFlag(out))
    /\ (args.t.shape = "object" /\ args.t.instance_type.set # "none"
          /\ args.settings.option_add_null_type) =>
         /\ NullAddedOnce(TypesOf(args.t.instance_type), TypesOf(out.instance_type))
         /\ out.reference = args.t.reference
         /\ \A k \in DOMAIN args.t.extensions :
              k \in DOMAIN out.extensions /\ out.extensions[k] = args.t.extensions[k]

C14_Witness ==
  /\ op = "json_schema"
  /\ args.settings.option_add_null_type
  /\ args.settings.option_nullable
  /\ args.t = SchemaObject(Single("integer"), "", None, None, NoExtensions)
  /\ out.instance_type = Vec(<<"integer", "null">>)
  /\ NullableFlag(out)

\* C15: binding maps Def(v) to T's driver value of v and Undef to T::null();
\* reading returns Undef exactly when the driver value equals T::null() and
\* otherwise Def of T's own conversion, or T's conversion error unchanged; a
\* bound value reads back as itself when T's conversion of it round-trips and
\* is not T::null().
C15_ValueBoundary ==
  /\ op = "into_Value" =>
       /\ self.tag = "Def" => out = T_into_Value(codec, self.val)
       /\ self.tag = "Undef" => out = T_null
  /\ op \in {"try_from", "fetch"} =>
       /\ args.v = T_null <=> out = Ok(Defined_Undef)
       /\ (args.v # T_null /\ T_try_from(codec, args.v).ok) =>
            (out = Ok(Defined_Def(T_try_from(codec, args.v).val)) /\ d = out.val)
       /\ (args.v # T_null /\ ~T_try_from(codec, args.v).ok) =>
            out = Err(T_try_from(codec, args.v).err)
  /\ op = "fetch" =>
       /\ self = Defined_Undef => (out = Ok(Defined_Undef) /\ d = Defined_Undef)
       /\ (/\ self.tag = "Def"
           /\ T_into_Value(codec, self.val) # T_null
           /\ T_try_from(codec, T_into_Value(codec, self.val)) = Ok(self.val)) =>
            (out = Ok(self) /\ d = self)

C15_Witness ==
  /\ op = "fetch"
  /\ self = Defined_Def(MaxVal)
  /\ args.v = Value("Int", Some(MaxVal))
  /\ out = Ok(Defined_Def(MaxVal))
  /\ d = Defined_Def(MaxVal)

====
